---- MODULE Spec2Model ----
(***************************************************************************)
(* MsalAuthService (src/src/core/auth-service.ts) as a state machine.      *)
(*                                                                         *)
(* One service instance, the identity provider (the MSAL SDK) as its       *)
(* environment, two application callers and the renewal-timer callback.    *)
(* Every action is one run-to-completion segment of the single-threaded    *)
(* event loop: from a call, or from the resolution of an awaited provider  *)
(* promise or timeout, up to the next await of a provider promise or       *)
(* timeout (or to the return).  An await of an async function of the       *)
(* service itself only continues in a microtask and is not a point where   *)
(* another macrotask interleaves.                                          *)
(*                                                                         *)
(* Time is counted in units of five minutes.                               *)
(***************************************************************************)
EXTENDS Integers, FiniteSets, Sequences, TLC

VARIABLES svc, idp, procs, now, obs, loggedOut, needsInit, authState, storage,
          issuedTo

vars == <<svc, idp, procs, now, obs, loggedOut, needsInit, authState, storage,
          issuedTo>>

(* ----------------------------- bounds --------------------------------- *)

\* the clock runs from 1 to MaxTime
MaxTime == 7
\* the provider issues at most MaxTokens bearer values
MaxTokens == 2
\* the second caller makes its calls up to this instant, and the clock passes
\* it only when the second caller's calls have ended
SecondCallerWindow == 1

(* ------------------------ program constants --------------------------- *)

\* null / undefined / 0 / "" : the falsy values of the fields below
Null == 0
\* 5 * 60 * 1000 ms, the safety margin of setCachedToken
FiveMinutes == 1
\* 30 * 60 * 1000 ms, the period of the renewal timer
RefreshInterval == 6
\* tokenRenewalOffsetSeconds defaults to 300 s
DefaultRenewalOffset == 1

Callers == {"c1", "c2"}
TimerProc == "timer"
Procs == Callers \cup {TimerProc}

\* remaining lifetimes (expiresOn - now) of the tokens the provider returns:
\* 10 min, 60 min
Lifetimes == {2, 12}

NoToken == [id |-> 0, exp |-> 0]

\* keys of sessionStorage and localStorage: entries of the provider, and
\* entries of the application
StorageKeys ==
    { "msal.account.keys", "microsoft.sso", "user_login_count", "app.theme" }

\* the value stored under a key; Absent: the tier has no such key
Absent == "absent"
StorageValues == {"v1", "v2"}

\* sessionStorage and localStorage
Storages ==
    [session : [StorageKeys -> StorageValues \cup {Absent}],
     local   : [StorageKeys -> StorageValues \cup {Absent}]]

EmptyStorage ==
    [session |-> [k \in StorageKeys |-> Absent],
     local   |-> [k \in StorageKeys |-> Absent]]

\* String.prototype.includes
includes(key, fragment) ==
    \E i \in 1..(Len(key) - Len(fragment) + 1) :
        SubSeq(key, i, i + Len(fragment) - 1) = fragment

\* [...Object.keys(sessionStorage), ...Object.keys(localStorage)]
storageKeys(st) ==
    {k \in StorageKeys : st.session[k] # Absent \/ st.local[k] # Absent}

\* the keys the sweep of clearAuthenticationState() removes
sweptKeys(st) ==
    {k \in storageKeys(st) :
        includes(k, "msal") \/ includes(k, "microsoft") \/ includes(k, "login")}

\* a sweep that removes the keys from sessionStorage only
sweepStorage_sessionOnly(st) ==
    [st EXCEPT !.session = [k \in StorageKeys |->
                              IF k \in sweptKeys(st) THEN Absent ELSE st.session[k]]]

\* clearAuthenticationState(): sessionStorage.removeItem(key) and
\* localStorage.removeItem(key) for every key of the sweep
sweepStorage(st) ==
    [session |-> [k \in StorageKeys |->
                    IF k \in sweptKeys(st) THEN Absent ELSE st.session[k]],
     local   |-> [k \in StorageKeys |->
                    IF k \in sweptKeys(st) THEN Absent ELSE st.local[k]]]

NoConfig ==
    [clientId |-> "none", flowType |-> "unset", tokenRenewalOffsetSeconds |-> 0,
     cacheLocation |-> "unset"]

\* MsalAuthConfig: the fields the service reads.  flowType,
\* tokenRenewalOffsetSeconds and cacheLocation are optional ("unset", 0).
Configs ==
    { [clientId |-> "A", flowType |-> "unset",    tokenRenewalOffsetSeconds |-> 0,
       cacheLocation |-> "unset"],
      [clientId |-> "B", flowType |-> "redirect", tokenRenewalOffsetSeconds |-> 2,
       cacheLocation |-> "sessionStorage"] }

\* the cache location of the Configuration the provider is constructed with:
\* config.cacheLocation || 'localStorage'
msalConfig_cacheLocation(cfg) ==
    IF cfg.cacheLocation # "unset" THEN cfg.cacheLocation ELSE "localStorage"

\* the renewal lead the configuration asks for: config.tokenRenewalOffsetSeconds || 300
RenewalLead(cfg) ==
    IF cfg.tokenRenewalOffsetSeconds # 0 THEN cfg.tokenRenewalOffsetSeconds
    ELSE DefaultRenewalOffset

(* --------------------------- the service ------------------------------ *)

InitSvc ==
    [ msalInstance         |-> FALSE,
      config               |-> NoConfig,
      isInitialized        |-> FALSE,
      cachedToken          |-> NoToken,
      tokenExpiryTime      |-> Null,
      isLoginInProgress    |-> FALSE,
      flowType             |-> "popup",
      tokenRefreshInterval |-> Null ]

\* the adapters that keep an AuthenticationState over the service: the React
\* hook useAuthentication and the Angular MsalAuthService
Adapters == {"react", "angular"}

\* the AuthenticationState both adapters start from.  authError tells that an
\* error message is set, jwtToken is the id of the bearer value (0: null).
InitAuthState ==
    [ isInitializing  |-> TRUE,
      isAuthenticated |-> FALSE,
      needsLogin      |-> FALSE,
      authError       |-> FALSE,
      jwtToken        |-> 0 ]

\* since: the number of bearer values the provider had issued when a
\* forceRefreshToken() was called.  w: the adapter whose code awaits the call
\* ("none": the application calls the service itself)
IdleProc == [op |-> "none", pc |-> "idle", attempts |-> 0, since |-> 0, w |-> "none"]

\* an error object: its class and its errorCode (its message, for a plain
\* Error)
NoError == [cls |-> "none", code |-> "none"]

InteractionInProgress == [cls |-> "BrowserAuthError", code |-> "interaction_in_progress"]

\* the rejections of msalInstance.acquireTokenSilent()
SilentFailures ==
    { InteractionInProgress,
      [cls |-> "InteractionRequiredAuthError", code |-> "interaction_required"],
      [cls |-> "BrowserAuthError",             code |-> "monitor_window_timeout"] }

\* the rejections of msalInstance.acquireTokenPopup() and acquireTokenRedirect()
LoginFailures ==
    { InteractionInProgress,
      [cls |-> "BrowserAuthError", code |-> "user_cancelled"],
      [cls |-> "BrowserAuthError", code |-> "popup_window_error"],
      [cls |-> "ServerError",      code |-> "access_denied"] }

\* new Error('Redirect initiated')
RedirectInitiated == [cls |-> "Error", code |-> "Redirect initiated"]

\* an error object that is thrown on as it is
Rethrown(e) == e.cls \o ":" \o e.code

NoEvent ==
    [ ev           |-> "none",
      proc         |-> "none",
      op           |-> "none",
      tok          |-> NoToken,
      err          |-> "none",
      silentCall   |-> "none",
      silentErr    |-> "none",
      cachedBefore |-> NoToken,
      loginCall    |-> "none",
      loginExit    |-> "none",
      lockAtExit   |-> FALSE,
      arg          |-> "none",
      again        |-> FALSE,
      since        |-> 0,
      adapter      |-> "none",
      cacheLocation |-> "none",
      silentFailure |-> [cls |-> "none", code |-> "none"],
      loginFailure |-> [cls |-> "none", code |-> "none"],
      probe        |-> "none",
      seeded       |-> FALSE,
      swept        |-> {} ]

\* an ensureInitialized() that does not look at isInitialized
Initialized_constructed(s) ==
    s.msalInstance /\ s.config # NoConfig

\* ensureInitialized() does not throw
Initialized(s) == s.isInitialized /\ s.msalInstance /\ s.config # NoConfig

setCachedToken(s, result, t) ==
    [s EXCEPT !.cachedToken = result,
              !.tokenExpiryTime = (IF result.exp # Null THEN result.exp ELSE t) - FiveMinutes]

clearCachedToken(s) ==
    [s EXCEPT !.cachedToken = NoToken, !.tokenExpiryTime = Null]

stopTokenRefreshTimer(s) ==
    [s EXCEPT !.tokenRefreshInterval = Null]

\* the handle is modelled by the instant of the timer's next firing
startTokenRefreshTimer(s, t) ==
    [stopTokenRefreshTimer(s) EXCEPT !.tokenRefreshInterval = t + RefreshInterval]

\* the fast path's test: cachedToken && tokenExpiryTime && Date.now() < tokenExpiryTime
CacheValid(s, t) ==
    s.cachedToken # NoToken /\ s.tokenExpiryTime # Null /\ t < s.tokenExpiryTime

\* a loginInteractive() without its finally block: the lock is left as it is
loginFinally_skip(s) ==
    s

\* the finally block of loginInteractive
loginFinally(s) ==
    [s EXCEPT !.isLoginInProgress = FALSE]

\* a handleInteractionInProgress() that only waits
handleInteractionInProgress_onlyWait(s) ==
    s

\* handleInteractionInProgress(), up to its await of the 2 s timeout
handleInteractionInProgress(s) ==
    clearCachedToken([s EXCEPT !.isLoginInProgress = FALSE])

(* ------------------- one segment of one invocation -------------------- *)
(* A context is the state a segment works on: the service, the provider,  *)
(* the record of the running process and the event the segment shows.     *)

\* History of the identities: the clientId msalInstance was constructed with
\* (msalConfig.auth.clientId), the clientId of the instance whose result is
\* in cachedToken, and the one the pending redirect response was issued to.
\* Untracked: the behaviour keeps no such history.
Untracked ==
    [instance |-> "untracked", cached |-> "untracked", redirect |-> "untracked"]

NoIdentity == [instance |-> "none", cached |-> "none", redirect |-> "none"]

\* the history after a segment that ends in context c: new
\* PublicClientApplication(msalConfig) replaces the instance, and
\* setCachedToken(result) stores a result of the instance in place (or the
\* redirect response)
issuedTo_next(c) ==
    IF issuedTo = Untracked THEN Untracked
    ELSE LET inst == IF c.obs.cacheLocation # "none" THEN c.obs.arg
                     ELSE issuedTo.instance
         IN  [instance |-> inst,
              cached   |-> IF c.svc.cachedToken = svc.cachedToken THEN issuedTo.cached
                           ELSE IF c.svc.cachedToken = NoToken THEN "none"
                           ELSE IF c.svc.cachedToken = idp.pendingRedirect
                           THEN issuedTo.redirect
                           ELSE inst,
              redirect |-> IF c.idp.pendingRedirect = NoToken THEN "none"
                           ELSE issuedTo.redirect]


Ctx(p) ==
    [id |-> p, svc |-> svc, idp |-> idp, p |-> procs[p], obs |-> NoEvent,
     auth |-> authState, storage |-> storage]

RECURSIVE AdapterResume(_, _, _, _)

\* the top-level operation returns (ev = "return") or raises (ev = "raise"),
\* to the application or to the adapter that awaits it
Finish(c, ev, tok, err) ==
    LET c1 == [c EXCEPT !.obs = [c.obs EXCEPT !.ev = ev, !.proc = c.id, !.op = c.p.op,
                                              !.tok = tok, !.err = err,
                                              !.since = c.p.since]]
    IN  IF c.p.w = "none"
        THEN [c1 EXCEPT !.p = IdleProc]
        ELSE AdapterResume(c1, ev, tok, err)

\* a loginInteractive() that, finding the lock held, waits for it instead of
\* throwing
loginInteractive_locked_wait(c) ==
    [c EXCEPT !.obs.loginCall = "rejected", !.p.pc = "await_login_backoff"]

\* loginInteractive() finds isLoginInProgress set: throws 'Login already in
\* progress'
loginInteractive_locked(c) ==
    Finish([c EXCEPT !.obs.loginCall = "rejected"],
           "raise", NoToken, "LOGIN_ALREADY_IN_PROGRESS")

\* loginInteractive(), from its call to the await of the provider
loginInteractive(c) ==
    LET c1 == [c EXCEPT !.obs = [c.obs EXCEPT !.proc = c.id, !.op = c.p.op]] IN
    IF ~Initialized(c.svc)
    THEN Finish([c1 EXCEPT !.obs.loginCall = "NotInitialized"],
                "raise", NoToken, "NOT_INITIALIZED")
    ELSE IF c.svc.isLoginInProgress
    THEN loginInteractive_locked(c1)
    ELSE [c1 EXCEPT !.svc.isLoginInProgress = TRUE,
                    !.p.pc = IF c.svc.flowType = "redirect"
                             THEN "await_redirect" ELSE "await_popup",
                    !.obs.loginCall = "request"]

\* the errors of acquireTokenSilent() on which getAccessToken() escalates
EscalatingErrors == {"NO_ACCOUNTS_FOUND", "INTERACTION_REQUIRED", "SILENT_REFRESH_FAILED"}

\* getAccessToken(): `const result = await this.loginInteractive()`
getAccessToken_escalate(c) ==
    loginInteractive([c EXCEPT !.p.attempts = IF @ < 2 THEN @ + 1 ELSE @])

\* a getAccessToken() that calls loginInteractive() again when the login it
\* escalated to has failed
getAccessToken_afterLogin_retry(c, ev, tok, err) ==
    IF ev = "raise"
    THEN getAccessToken_escalate(c)
    ELSE Finish(c, ev, tok, err)

\* getAccessToken(): `return result.accessToken` after the login it escalated
\* to; an error of that login propagates
getAccessToken_afterLogin(c, ev, tok, err) ==
    Finish(c, ev, tok, err)

\* loginInteractive() leaves through its finally block and returns tok
\* (ev = "return") or throws err (ev = "raise") to the code that awaits it
LoginExit(c, ev, tok, err) ==
    LET s1 == loginFinally(c.svc)
        c1 == [c EXCEPT !.svc = s1,
                        !.obs = [c.obs EXCEPT !.loginExit = ev,
                                              !.lockAtExit = s1.isLoginInProgress]]
    IN  IF c.p.op = "loginInteractive"
        THEN Finish(c1, ev, tok, err)
        ELSE getAccessToken_afterLogin(c1, ev, tok, err)

\* a loginInteractive() whose catch throws every error on as it is
classifyLoginError_rethrow(e) ==
    Rethrown(e)

\* the catch block of loginInteractive(): the message of the Error it throws
classifyLoginError(e) ==
    IF e.cls = "BrowserAuthError" /\ e.code = "interaction_in_progress"
    THEN "AUTHENTICATION_INTERRUPTED"
    ELSE IF e.cls = "BrowserAuthError"
            /\ e.code \in {"user_cancelled", "popup_window_error"}
    THEN "AUTHENTICATION_CANCELLED"
    ELSE Rethrown(e)

\* the catch block of loginInteractive(), up to its throw or to the await of
\* handleInteractionInProgress()
loginInteractive_catch(c, e) ==
    LET c1 == [c EXCEPT !.obs = [c.obs EXCEPT !.proc = c.id, !.op = c.p.op,
                                              !.loginFailure = e]] IN
    IF e = InteractionInProgress
    THEN [c1 EXCEPT !.svc = handleInteractionInProgress(c.svc),
                    !.p.pc = "await_login_backoff"]
    ELSE LoginExit(c1, "raise", NoToken, classifyLoginError(e))

\* a catch block of initialize() that leaves the service unmarked
initialize_catch_unmarked(c) ==
    Finish(c, "raise", NoToken, "INITIALIZATION_FAILED")

\* initialize(): the catch block
initialize_catch(c) ==
    Finish([c EXCEPT !.svc.isInitialized = TRUE], "raise", NoToken, "INITIALIZATION_FAILED")

\* initialize(): after clearPendingInteractions()
initialize_finish(c, t) ==
    LET s1 == [c.svc EXCEPT !.isInitialized = TRUE] IN
    IF ~Initialized(s1)
    THEN initialize_catch([c EXCEPT !.svc = s1])
    ELSE Finish([c EXCEPT !.svc = IF c.idp.accounts > 0
                                  THEN startTokenRefreshTimer(s1, t) ELSE s1],
                "return", NoToken, "none")

\* a timer callback that goes to loginInteractive() when its silent
\* acquisition fails the way getAccessToken() escalates on
timer_catch_escalate(c) ==
    IF c.obs.silentErr \in EscalatingErrors
    THEN loginInteractive(c)
    ELSE Finish(c, "return", NoToken, "none")

\* a timer callback that stops the timer when its silent acquisition fails
timer_catch_stop(c) ==
    Finish([c EXCEPT !.svc = IF c.obs.silentErr # "none"
                              THEN stopTokenRefreshTimer(c.svc) ELSE c.svc],
           "return", NoToken, "none")

\* the setInterval callback after `await this.acquireTokenSilent()`: the
\* result is dropped, an error is logged and swallowed
timer_catch(c) ==
    Finish(c, "return", NoToken, "none")

RECURSIVE SilentResult(_, _, _, _)

\* an acquireTokenSilent() whose catch throws the provider's error on
classifySilentError_rethrow(e) ==
    Rethrown(e)

\* the catch block of acquireTokenSilent(): the message of the Error it throws
classifySilentError(e) ==
    IF e.cls = "BrowserAuthError" /\ e.code = "interaction_in_progress"
    THEN "INTERACTION_IN_PROGRESS_RESOLVED"
    ELSE IF e.cls = "InteractionRequiredAuthError"
    THEN "INTERACTION_REQUIRED"
    ELSE "SILENT_REFRESH_FAILED"

\* the catch block of acquireTokenSilent(), up to its throw or to the await of
\* handleInteractionInProgress()
acquireTokenSilent_catch(c, e, t) ==
    LET c1 == [c EXCEPT !.obs = [c.obs EXCEPT !.proc = c.id, !.op = c.p.op,
                                              !.silentFailure = e]] IN
    IF e = InteractionInProgress
    THEN [c1 EXCEPT !.svc = handleInteractionInProgress(c.svc),
                    !.p.pc = "await_backoff"]
    ELSE SilentResult(c1, NoToken, classifySilentError(e), t)

\* acquireTokenSilent(), from its call to the await of the provider
acquireTokenSilent(c, t) ==
    LET c1 == [c EXCEPT !.obs = [c.obs EXCEPT !.proc = c.id, !.op = c.p.op,
                                              !.cachedBefore = c.svc.cachedToken]] IN
    IF ~Initialized(c.svc)
    THEN SilentResult([c1 EXCEPT !.obs.silentCall = "NotInitialized"],
                      NoToken, "NOT_INITIALIZED", t)
    ELSE IF CacheValid(c.svc, t)
    THEN SilentResult([c1 EXCEPT !.obs.silentCall = "cache"],
                      c.svc.cachedToken, "none", t)
    ELSE IF c.idp.accounts = 0
    THEN SilentResult([c1 EXCEPT !.obs.silentCall = "NoAccount"],
                      NoToken, "NO_ACCOUNTS_FOUND", t)
    ELSE [c1 EXCEPT !.p.pc = "await_silent", !.obs.silentCall = "request"]

\* getAccessToken(): what follows `await this.acquireTokenSilent()`
getAccessToken_catch(c, tok, err, t) ==
    IF err = "none" THEN Finish(c, "return", tok, "none")
    ELSE IF err \in EscalatingErrors THEN getAccessToken_escalate(c)
    ELSE IF err = "INTERACTION_IN_PROGRESS_RESOLVED" THEN acquireTokenSilent(c, t)
    ELSE Finish(c, "raise", NoToken, err)

\* acquireTokenSilent() returns tok (err = "none") or throws err to the code
\* that awaits it
SilentResult(c, tok, err, t) ==
    LET c1 == [c EXCEPT !.obs.silentErr = err] IN
    CASE c.p.op = "acquireTokenSilent" ->
            Finish(c1, IF err = "none" THEN "return" ELSE "raise", tok, err)
      [] c.p.op \in {"getAccessToken", "forceRefreshToken"} ->
            getAccessToken_catch(c1, tok, err, t)
      [] c.p.op = "timer" ->
            timer_catch(c1)
      [] c.p.op = "initialize" ->
            initialize_finish(c1, t)

\* clearPendingInteractions(): getAllAccounts() throws while the service is
\* not initialized, and the outer catch swallows it.  obs.probe tells what
\* became of the probe: getAllAccounts() threw ("threw"), there was no account
\* ("noAccount"), or acquireTokenSilent() was called ("silent")
clearPendingInteractions(c, t) ==
    LET c1 == [c EXCEPT !.svc.isLoginInProgress = FALSE] IN
    IF ~Initialized(c1.svc)
    THEN initialize_finish([c1 EXCEPT !.obs.probe = "threw"], t)
    ELSE IF c1.idp.accounts = 0
    THEN initialize_finish([c1 EXCEPT !.obs.probe = "noAccount"], t)
    ELSE acquireTokenSilent([c1 EXCEPT !.obs.probe = "silent"], t)

\* the adapter's initialize ends: isInitializing becomes false.  branch names
\* the way it took: "failed" (outer catch), "noAccount", "token",
\* "tokenFailed" (inner catch)
adapter_initialize_end(c, branch) ==
    [c EXCEPT !.p = IdleProc,
              !.auth.isInitializing = FALSE,
              !.obs.adapter = branch]

\* an adapter that leaves the state as it is when initialization fails
adapter_initialize_catch_hang(c) ==
    [c EXCEPT !.p = IdleProc, !.obs.adapter = "failed"]

\* the outer catch of the adapter's initialize
adapter_initialize_catch(c) ==
    adapter_initialize_end([c EXCEPT !.auth.authError = TRUE,
                                     !.auth.needsLogin = TRUE], "failed")

\* an adapter that does not ask for login when no account is stored
adapter_initialize_noAccount_idle(c) ==
    adapter_initialize_end(c, "noAccount")

\* the adapter's initialize when isLoggedIn() is false
adapter_initialize_noAccount(c) ==
    adapter_initialize_end([c EXCEPT !.auth.needsLogin = TRUE], "noAccount")

\* a clearAuthenticationState() that flips the lock instead of clearing it
clearAuthenticationState_flip(s) ==
    [clearCachedToken(stopTokenRefreshTimer(s))
        EXCEPT !.isLoginInProgress = ~@, !.isInitialized = FALSE]

\* a clearAuthenticationState() that leaves isInitialized as it is
clearAuthenticationState_keep(s) ==
    clearCachedToken([stopTokenRefreshTimer(s) EXCEPT !.isLoginInProgress = FALSE])

\* clearAuthenticationState(): what it does to the fields of the service
clearAuthenticationState(s) ==
    [clearCachedToken([stopTokenRefreshTimer(s) EXCEPT !.isLoginInProgress = FALSE])
        EXCEPT !.isInitialized = FALSE]

\* the message of the Error the service throws under the name err; an error
\* of the provider that is thrown on carries its class and code
errorMessage(err) ==
    CASE err = "NOT_INITIALIZED" -> "MSAL not initialized. Call initialize() first."
      [] err = "LOGIN_ALREADY_IN_PROGRESS" -> "Login already in progress"
      [] err = "AUTHENTICATION_INTERRUPTED" ->
            "Authentication window was closed or interrupted. Please try again."
      [] err = "AUTHENTICATION_CANCELLED" ->
            "Authentication was cancelled. Please try again."
      [] OTHER -> err

\* useAuthentication's handleClearAuthState (React), called and not awaited
\* by handleLogin's catch: authService.clearAuthenticationState() runs at
\* once, the state updates that follow its await come after those of
\* handleLogin
adapter_handleClearAuthState(c) ==
    [c EXCEPT !.svc = clearAuthenticationState(c.svc),
              !.idp.accounts = 0,
              !.storage = sweepStorage(c.storage),
              !.obs.swept = sweptKeys(c.storage),
              !.auth = [c.auth EXCEPT !.isAuthenticated = FALSE,
                                      !.needsLogin = TRUE,
                                      !.jwtToken = 0,
                                      !.authError = FALSE,
                                      !.isInitializing = FALSE]]

\* useAuthentication's handleLogin (React): what follows the await of
\* authService.loginInteractive().  obs.adapter names the way it took:
\* "login" (a result), "loginCleared" (the catch, with the auto-clear),
\* "loginFailed" (the catch, without)
adapter_handleLogin_end(c, ev, tok, err) ==
    IF ev = "return"
    THEN [c EXCEPT !.p = IdleProc,
                   !.obs.adapter = "login",
                   !.auth = [c.auth EXCEPT !.jwtToken = tok.id,
                                           !.isAuthenticated = TRUE,
                                           !.needsLogin = FALSE,
                                           !.isInitializing = FALSE]]
    ELSE IF includes(errorMessage(err), "interaction_in_progress")
    THEN adapter_handleClearAuthState([c EXCEPT !.p = IdleProc,
                                                !.obs.adapter = "loginCleared"])
    ELSE [c EXCEPT !.p = IdleProc,
                   !.obs.adapter = "loginFailed",
                   !.auth = [c.auth EXCEPT !.authError = TRUE,
                                           !.isInitializing = FALSE]]

\* the code of useAuthentication's initialize (React) and of
\* MsalAuthService.initialize (Angular) that follows the await of
\* authService.initialize(config) and of authService.getAccessToken(), and
\* the code of handleLogin (React) that follows the await of
\* authService.loginInteractive()
AdapterResume(c, ev, tok, err) ==
    CASE c.p.op = "initialize" ->
            IF ev = "raise" \/ ~Initialized(c.svc)
            THEN adapter_initialize_catch(c)
            ELSE IF c.idp.accounts > 0
            THEN acquireTokenSilent([c EXCEPT !.p.op = "getAccessToken"], now)
            ELSE adapter_initialize_noAccount(c)
      [] c.p.op = "getAccessToken" ->
            IF ev = "return"
            THEN adapter_initialize_end([c EXCEPT !.auth.jwtToken = tok.id,
                                                  !.auth.isAuthenticated = TRUE],
                                        "token")
            ELSE adapter_initialize_end([c EXCEPT !.auth.needsLogin = TRUE],
                                        "tokenFailed")
      [] c.p.op = "loginInteractive" ->
            adapter_handleLogin_end(c, ev, tok, err)

(* ------------------------------ actions ------------------------------- *)

\* a segment ends: its context becomes the state.  loggedOut tells that a
\* logout() has returned and that no initialize() has been called or has
\* returned and no loginInteractive() has passed the lock since.  needsInit
\* tells that a clearAuthenticationState() has returned while no initialize()
\* was in progress and that no initialize() has been called since
Apply(c) ==
    /\ svc' = c.svc
    /\ idp' = c.idp
    /\ procs' = [procs EXCEPT ![c.id] = c.p]
    /\ obs' = c.obs
    /\ loggedOut' = IF c.obs.op = "logout" /\ c.obs.ev = "return" THEN TRUE
                    ELSE IF c.obs.op = "initialize" \/ c.p.op = "initialize"
                            \/ c.obs.loginCall = "request" THEN FALSE
                    ELSE loggedOut
    /\ needsInit' = IF c.obs.op = "clearAuthenticationState"
                    THEN \A q \in Procs : procs[q].op # "initialize"
                    ELSE IF c.obs.op = "initialize" \/ c.p.op = "initialize" THEN FALSE
                    ELSE needsInit
    /\ authState' = c.auth
    /\ storage' = c.storage
    /\ issuedTo' = issuedTo_next(c)
    /\ UNCHANGED now

\* the application may call the service from p
CanCall(p) ==
    /\ procs[p].pc = "idle"
    /\ p = "c1" \/ now <= SecondCallerWindow

Start(p, op) == [Ctx(p) EXCEPT !.p = [IdleProc EXCEPT !.op = op]]

\* the next bearer value of the provider, expiring life units from now
NewToken(life) == [id |-> idp.issued + 1, exp |-> now + life]

\* an initialize() without the test of its first line
AlreadyInitialized_never(s, cfg) ==
    FALSE

\* initialize(): this.isInitialized && this.config?.clientId === config.clientId
AlreadyInitialized(s, cfg) ==
    s.isInitialized /\ s.config.clientId = cfg.clientId

\* initialize(config), from its call to the await of msalInstance.initialize();
\* new PublicClientApplication() returns (constructed) or throws
initialize(c0, cfg, constructed) ==
    LET c == [c0 EXCEPT !.obs.arg = cfg.clientId] IN
    IF AlreadyInitialized(c.svc, cfg)
    THEN Finish(c, "return", NoToken, "none")
    ELSE LET c1 == [c EXCEPT !.svc.config = cfg,
                             !.svc.flowType = IF cfg.flowType = "unset"
                                              THEN "popup" ELSE cfg.flowType]
         IN  IF constructed
             THEN [c1 EXCEPT !.svc.msalInstance = TRUE, !.p.pc = "await_init",
                             !.obs.cacheLocation = msalConfig_cacheLocation(cfg)]
             ELSE initialize_catch(c1)

CallInitialize(p) ==
    /\ CanCall(p)
    /\ \E cfg \in Configs, constructed \in BOOLEAN :
         Apply(initialize(Start(p, "initialize"), cfg, constructed))

\* the adapter is mounted: the effect of useAuthentication (React) runs its
\* initialize, or the application calls MsalAuthService.initialize (Angular)
AdapterInitialize(p) ==
    /\ CanCall(p)
    /\ authState = InitAuthState
    /\ \E w \in Adapters, cfg \in Configs, constructed \in BOOLEAN :
         LET c0 == Start(p, "initialize")
             a  == IF w = "react"
                   THEN [authState EXCEPT !.isInitializing = TRUE, !.authError = FALSE,
                                          !.needsLogin = FALSE]
                   ELSE [authState EXCEPT !.isInitializing = TRUE, !.authError = FALSE]
         IN  Apply(initialize([c0 EXCEPT !.p.w = w, !.auth = a], cfg, constructed))

\* the user presses the login button of the React adapter: handleLogin, up to
\* the await of the provider inside authService.loginInteractive()
AdapterLogin(p) ==
    /\ CanCall(p)
    /\ ~authState.isInitializing
    /\ LET c0 == Start(p, "loginInteractive")
           a  == [authState EXCEPT !.isInitializing = TRUE, !.authError = FALSE]
       IN  Apply(loginInteractive([c0 EXCEPT !.p.w = "react", !.auth = a]))

\* msalInstance.initialize() resolves or rejects
ProviderInitializeDone(p) ==
    /\ procs[p].pc = "await_init"
    /\ \E ok \in BOOLEAN :
         LET c == Ctx(p) IN
         IF ~ok THEN Apply(initialize_catch(c))
         ELSE IF svc.flowType = "redirect"
         THEN Apply([c EXCEPT !.p.pc = "await_redirect_promise"])
         ELSE Apply(clearPendingInteractions(c, now))

\* an initialize() that drops the response of handleRedirectPromise()
handleRedirectResponse_drop(s, redirectResponse, t) ==
    s

\* initialize(): if (redirectResponse) this.setCachedToken(redirectResponse)
handleRedirectResponse(s, redirectResponse, t) ==
    IF redirectResponse # NoToken THEN setCachedToken(s, redirectResponse, t) ELSE s

\* msalInstance.handleRedirectPromise() resolves (with the pending response,
\* if there is one, which it consumes) or rejects
HandleRedirectPromiseDone(p) ==
    /\ procs[p].pc = "await_redirect_promise"
    /\ \E ok \in BOOLEAN :
         LET c == Ctx(p) IN
         IF ~ok THEN Apply(initialize_catch(c))
         ELSE Apply(clearPendingInteractions(
                  [c EXCEPT !.svc = handleRedirectResponse(c.svc, idp.pendingRedirect, now),
                            !.idp.pendingRedirect = NoToken,
                            !.obs.seeded = (idp.pendingRedirect # NoToken)], now))

CallAcquireTokenSilent(p) ==
    /\ CanCall(p)
    /\ Apply(acquireTokenSilent(Start(p, "acquireTokenSilent"), now))

CallGetAccessToken(p) ==
    /\ CanCall(p)
    /\ Apply(acquireTokenSilent(Start(p, "getAccessToken"), now))

\* a forceRefreshToken() that goes to getAccessToken() with the cache as it is
forceRefreshToken_keep(c, t) ==
    acquireTokenSilent(c, t)

\* forceRefreshToken(): clearCachedToken(), then getAccessToken()
forceRefreshToken(c, t) ==
    acquireTokenSilent([c EXCEPT !.svc = clearCachedToken(c.svc)], t)

CallForceRefreshToken(p) ==
    /\ CanCall(p)
    /\ LET c == Start(p, "forceRefreshToken") IN
       Apply(forceRefreshToken([c EXCEPT !.p.since = idp.issued], now))

CallLoginInteractive(p) ==
    /\ CanCall(p)
    /\ Apply(loginInteractive(Start(p, "loginInteractive")))

\* msalInstance.acquireTokenSilent() resolves or rejects
AcquireTokenSilentDone(p) ==
    /\ procs[p].pc = "await_silent"
    /\ LET c == Ctx(p) IN
       \/ \E life \in Lifetimes :
            /\ idp.issued < MaxTokens
            /\ idp.accounts > 0
            /\ Apply(SilentResult(
                   [c EXCEPT !.svc = setCachedToken(c.svc, NewToken(life), now),
                             !.idp.issued = @ + 1],
                   NewToken(life), "none", now))
       \/ \E e \in SilentFailures :
            Apply(acquireTokenSilent_catch(c, e, now))

\* the 2 s timeout of handleInteractionInProgress() inside acquireTokenSilent()
BackoffElapsed(p) ==
    /\ procs[p].pc = "await_backoff"
    /\ Apply(SilentResult(Ctx(p), NoToken, classifySilentError(InteractionInProgress), now))

\* msalInstance.acquireTokenPopup() resolves or rejects
AcquireTokenPopupDone(p) ==
    /\ procs[p].pc = "await_popup"
    /\ LET c == Ctx(p) IN
       \/ \E life \in Lifetimes :
            /\ idp.issued < MaxTokens
            /\ Apply(LoginExit(
                   [c EXCEPT !.svc = startTokenRefreshTimer(
                                         setCachedToken(c.svc, NewToken(life), now), now),
                             !.idp.issued = @ + 1,
                             !.idp.accounts = 1],
                   "return", NewToken(life), "none"))
       \/ \E e \in LoginFailures :
            Apply(loginInteractive_catch(c, e))

\* a loginInteractive() that returns when acquireTokenRedirect() has resolved
acquireTokenRedirect_resolved_return(c) ==
    LoginExit(c, "return", NoToken, "none")

\* loginInteractive(): what follows `await acquireTokenRedirect(request)`
\* when the promise resolves: throw new Error('Redirect initiated'), which
\* the catch block receives
acquireTokenRedirect_resolved(c) ==
    loginInteractive_catch(c, RedirectInitiated)

\* msalInstance.acquireTokenRedirect() rejects, or resolves without the page
\* having been left
AcquireTokenRedirectDone(p) ==
    /\ procs[p].pc = "await_redirect"
    /\ LET c == Ctx(p) IN
       \/ \E e \in LoginFailures :
            Apply(loginInteractive_catch(c, e))
       \/ Apply(acquireTokenRedirect_resolved(c))

\* the 2 s timeout of handleInteractionInProgress() inside loginInteractive()
LoginBackoffElapsed(p) ==
    /\ procs[p].pc = "await_login_backoff"
    /\ Apply(LoginExit(Ctx(p), "raise", NoToken, classifyLoginError(InteractionInProgress)))

CallLogout(p) ==
    /\ CanCall(p)
    /\ LET c == Start(p, "logout") IN
       IF ~Initialized(svc)
       THEN Apply(Finish(c, "raise", NoToken, "NOT_INITIALIZED"))
       ELSE LET c1 == [c EXCEPT !.svc = stopTokenRefreshTimer(c.svc)] IN
            IF idp.accounts > 0
            THEN Apply([c1 EXCEPT !.p.pc = IF svc.flowType = "redirect"
                                           THEN "await_logout_redirect"
                                           ELSE "await_logout_popup"])
            ELSE Apply(Finish([c1 EXCEPT !.svc.isLoginInProgress = FALSE],
                              "return", NoToken, "none"))

\* what logout() does after its await of the provider's end-session request
logout_afterEndSession(s) ==
    [clearCachedToken(s) EXCEPT !.isLoginInProgress = FALSE]

\* a logout() that clears the cache and the lock when the provider rejects
logout_rejected_clears(c) ==
    Finish([c EXCEPT !.svc = logout_afterEndSession(c.svc)],
           "raise", NoToken, "PROVIDER_ERROR")

\* logout(): the awaited logoutRedirect() or logoutPopup() rejects; there is
\* no catch, the rejection leaves logout() at the await
logout_rejected(c) ==
    Finish(c, "raise", NoToken, "PROVIDER_ERROR")

\* msalInstance.logoutPopup() resolves or rejects; logoutRedirect() rejects
EndSessionDone(p) ==
    /\ procs[p].pc \in {"await_logout_popup", "await_logout_redirect"}
    /\ LET c == Ctx(p) IN
       \/ /\ procs[p].pc = "await_logout_popup"
          /\ Apply(Finish([c EXCEPT !.svc = logout_afterEndSession(c.svc),
                                    !.idp.accounts = 0],
                          "return", NoToken, "none"))
       \/ Apply(logout_rejected(c))

\* clearAuthenticationState() has no await.  Its sweep of sessionStorage and
\* localStorage removes the provider's entries, the stored account (which
\* idp.accounts stands for) with them.
CallClearAuthenticationState(p) ==
    /\ CanCall(p)
    /\ LET c == Start(p, "clearAuthenticationState") IN
       Apply(Finish([c EXCEPT !.svc = clearAuthenticationState(c.svc),
                              !.idp.accounts = 0,
                              !.storage = sweepStorage(c.storage),
                              !.obs.swept = sweptKeys(c.storage),
                              !.obs.again = (obs.op = "clearAuthenticationState")],
                    "return", NoToken, "none"))

\* the callback of setInterval.  A firing that finds the previous callback
\* still awaiting the provider only re-arms the timer.
TimerFires ==
    /\ svc.tokenRefreshInterval # Null
    /\ now >= svc.tokenRefreshInterval
    /\ LET c0 == Start(TimerProc, "timer")
           c  == [c0 EXCEPT !.svc.tokenRefreshInterval = @ + RefreshInterval]
       IN  IF procs[TimerProc].pc # "idle"
           THEN Apply([c EXCEPT !.p = procs[TimerProc]])
           ELSE IF ~Initialized(c.svc)
           THEN Apply(Finish(c, "return", NoToken, "none"))
           ELSE IF idp.accounts > 0
           THEN Apply(acquireTokenSilent(c, now))
           ELSE Apply(Finish([c EXCEPT !.svc = stopTokenRefreshTimer(c.svc)],
                             "return", NoToken, "none"))

\* the browser leaves the page: the redirect of acquireTokenRedirect() (the
\* user signs in, or comes back without a response) or of logoutRedirect().
\* The next page load starts from a fresh service; the provider's storage
\* stays.
PageNavigates(p) ==
    /\ \/ /\ procs[p].pc = "await_redirect"
          /\ \/ \E life \in Lifetimes :
                  /\ idp.issued < MaxTokens
                  /\ idp' = [idp EXCEPT !.issued = @ + 1, !.accounts = 1,
                                        !.pendingRedirect = NewToken(life)]
             \/ UNCHANGED idp
       \/ /\ procs[p].pc = "await_logout_redirect"
          /\ idp' = [idp EXCEPT !.accounts = 0]
    /\ svc' = InitSvc
    /\ procs' = [q \in Procs |-> IdleProc]
    /\ obs' = [NoEvent EXCEPT !.ev = "navigate", !.proc = p, !.op = procs[p].op]
    /\ loggedOut' = FALSE
    /\ needsInit' = FALSE
    /\ authState' = InitAuthState
    /\ issuedTo' = IF issuedTo = Untracked THEN Untracked
                   ELSE [instance |-> "none", cached |-> "none",
                         redirect |-> IF idp'.pendingRedirect # idp.pendingRedirect
                                      THEN issuedTo.instance ELSE issuedTo.redirect]
    /\ UNCHANGED <<now, storage>>

\* the account disappears from the provider's storage (signed out elsewhere)
ExternalSignOut ==
    /\ idp.accounts > 0
    /\ idp' = [idp EXCEPT !.accounts = 0]
    /\ obs' = NoEvent
    /\ UNCHANGED <<svc, procs, now, loggedOut, needsInit, authState, storage,
                   issuedTo>>

\* five minutes pass; a due timer fires before more time passes
Advance ==
    /\ now < MaxTime
    /\ svc.tokenRefreshInterval = Null \/ now < svc.tokenRefreshInterval
    /\ now < SecondCallerWindow \/ procs["c2"].pc = "idle"
    /\ now' = now + 1
    /\ obs' = NoEvent
    /\ UNCHANGED <<svc, idp, procs, loggedOut, needsInit, authState, storage,
                   issuedTo>>

Init ==
    /\ svc = InitSvc
    /\ idp \in [accounts : {0, 1}, pendingRedirect : {NoToken}, issued : {0}]
    /\ procs = [q \in Procs |-> IdleProc]
    /\ now = 1
    /\ obs = NoEvent
    /\ loggedOut = FALSE
    /\ needsInit = FALSE
    /\ authState = InitAuthState
    /\ storage = EmptyStorage
    /\ issuedTo = Untracked

Next ==
    \/ \E p \in Callers : CallInitialize(p)
    \/ \E p \in Callers : ProviderInitializeDone(p)
    \/ \E p \in Callers : HandleRedirectPromiseDone(p)
    \/ \E p \in Callers : CallAcquireTokenSilent(p)
    \/ \E p \in Callers : CallGetAccessToken(p)
    \/ \E p \in Callers : CallForceRefreshToken(p)
    \/ \E p \in Callers : CallLoginInteractive(p)
    \/ \E p \in Callers : CallLogout(p)
    \/ \E p \in Callers : CallClearAuthenticationState(p)
    \/ \E p \in Procs : AcquireTokenSilentDone(p)
    \/ \E p \in Procs : BackoffElapsed(p)
    \/ \E p \in Callers : AcquireTokenPopupDone(p)
    \/ \E p \in Callers : AcquireTokenRedirectDone(p)
    \/ \E p \in Callers : LoginBackoffElapsed(p)
    \/ \E p \in Callers : EndSessionDone(p)
    \/ \E p \in Callers : PageNavigates(p)
    \/ TimerFires
    \/ ExternalSignOut
    \/ Advance

Spec == Init /\ [][Next]_vars

\* the service as a completed initialize(cfg) leaves it
InitializedSvc(cfg, accounts, t) ==
    LET s1 == [InitSvc EXCEPT !.config = cfg,
                              !.flowType = IF cfg.flowType = "unset"
                                           THEN "popup" ELSE cfg.flowType,
                              !.msalInstance = TRUE,
                              !.isInitialized = TRUE]
    IN  IF accounts > 0 THEN startTokenRefreshTimer(s1, t) ELSE s1

\* sequences of loginInteractive() calls on an initialized service
InitLogin ==
    /\ idp \in [accounts : {0, 1}, pendingRedirect : {NoToken}, issued : {0}]
    /\ \E cfg \in Configs : svc = InitializedSvc(cfg, idp.accounts, 1)
    /\ procs = [q \in Procs |-> IdleProc]
    /\ now = 1
    /\ obs = NoEvent
    /\ loggedOut = FALSE
    /\ needsInit = FALSE
    /\ authState = InitAuthState
    /\ storage = EmptyStorage
    /\ issuedTo = Untracked

NextLogin ==
    \/ \E p \in Callers : CallLoginInteractive(p)
    \/ \E p \in Callers : AcquireTokenPopupDone(p)
    \/ \E p \in Callers : AcquireTokenRedirectDone(p)
    \/ \E p \in Callers : LoginBackoffElapsed(p)
    \/ \E p \in Callers : PageNavigates(p)

SpecLogin == InitLogin /\ [][NextLogin]_vars

\* one caller that initializes and asks for access tokens
NextRetry ==
    \/ CallInitialize("c1")
    \/ ProviderInitializeDone("c1")
    \/ HandleRedirectPromiseDone("c1")
    \/ CallGetAccessToken("c1")
    \/ AcquireTokenSilentDone("c1")
    \/ BackoffElapsed("c1")
    \/ AcquireTokenPopupDone("c1")
    \/ AcquireTokenRedirectDone("c1")
    \/ LoginBackoffElapsed("c1")
    \/ PageNavigates("c1")

\* every awaited provider promise settles and every timeout elapses
SpecRetry ==
    /\ Init
    /\ [][NextRetry]_vars
    /\ WF_vars(ProviderInitializeDone("c1"))
    /\ WF_vars(HandleRedirectPromiseDone("c1"))
    /\ WF_vars(AcquireTokenSilentDone("c1"))
    /\ WF_vars(BackoffElapsed("c1"))
    /\ WF_vars(AcquireTokenPopupDone("c1"))
    /\ WF_vars(AcquireTokenRedirectDone("c1") \/ PageNavigates("c1"))
    /\ WF_vars(LoginBackoffElapsed("c1"))

\* one page with an adapter mounted on the service: the adapter initializes
\* once per page load, and the renewal timer the service has started runs
NextAdapter ==
    \/ AdapterInitialize("c1")
    \/ AdapterLogin("c1")
    \/ ProviderInitializeDone("c1")
    \/ HandleRedirectPromiseDone("c1")
    \/ \E p \in {"c1", TimerProc} : AcquireTokenSilentDone(p)
    \/ \E p \in {"c1", TimerProc} : BackoffElapsed(p)
    \/ TimerFires
    \/ Advance
    \/ AcquireTokenPopupDone("c1")
    \/ AcquireTokenRedirectDone("c1")
    \/ LoginBackoffElapsed("c1")
    \/ PageNavigates("c1")
    \/ ExternalSignOut

SpecAdapter == Init /\ [][NextAdapter]_vars

\* clearAuthenticationState() on a service that has not been initialized,
\* over every content of the two storage tiers
\* one caller that initializes, re-initializes and asks for tokens, with the
\* history of the identities kept
InitIdentity ==
    /\ svc = InitSvc
    /\ idp \in [accounts : {0, 1}, pendingRedirect : {NoToken}, issued : {0}]
    /\ procs = [q \in Procs |-> IdleProc]
    /\ now = 1
    /\ obs = NoEvent
    /\ loggedOut = FALSE
    /\ needsInit = FALSE
    /\ authState = InitAuthState
    /\ storage = EmptyStorage
    /\ issuedTo = NoIdentity

NextIdentity ==
    \/ CallInitialize("c1")
    \/ ProviderInitializeDone("c1")
    \/ HandleRedirectPromiseDone("c1")
    \/ CallAcquireTokenSilent("c1")
    \/ CallGetAccessToken("c1")
    \/ \E p \in {"c1", TimerProc} : AcquireTokenSilentDone(p)
    \/ \E p \in {"c1", TimerProc} : BackoffElapsed(p)
    \/ AcquireTokenPopupDone("c1")
    \/ AcquireTokenRedirectDone("c1")
    \/ LoginBackoffElapsed("c1")
    \/ PageNavigates("c1")
    \/ TimerFires
    \/ Advance

SpecIdentity == InitIdentity /\ [][NextIdentity]_vars

InitStorage ==
    /\ svc = InitSvc
    /\ idp \in [accounts : {0, 1}, pendingRedirect : {NoToken}, issued : {0}]
    /\ procs = [q \in Procs |-> IdleProc]
    /\ now = 1
    /\ obs = NoEvent
    /\ loggedOut = FALSE
    /\ needsInit = FALSE
    /\ authState = InitAuthState
    /\ storage \in Storages
    /\ issuedTo = Untracked

NextStorage ==
    CallClearAuthenticationState("c1")

SpecStorage == InitStorage /\ [][NextStorage]_vars

(* ------------------------------ claims -------------------------------- *)

\* the processes with an interactive provider request (popup or redirect)
\* outstanding
InteractiveOutstanding ==
    {p \in Procs : procs[p].pc \in {"await_popup", "await_redirect"}}

\* the processes inside a loginInteractive() that has passed the lock check
\* and has not returned or raised yet
InsideLogin ==
    {p \in Procs : procs[p].pc \in {"await_popup", "await_redirect", "await_login_backoff"}}

\* C1: in every reachable state at most one interactive provider request
\* (popup or redirect) is outstanding.
C1_AtMostOneInteractiveRequest ==
    Cardinality(InteractiveOutstanding) <= 1

\* C2: of concurrent loginInteractive() calls exactly one proceeds to the
\* provider: a call made while another call that passed the lock has not yet
\* returned or raised is rejected with LoginAlreadyInProgress and issues no
\* provider request.
C2_SingleInteractiveFlight ==
    (obs.loginCall # "none" /\ (InsideLogin \ {obs.proc}) # {})
        => obs.loginCall = "rejected" /\ obs.err = "LOGIN_ALREADY_IN_PROGRESS"

\* C3: acquireSilent() on an initialized manager whose cache holds a token of
\* provider-reported expiry E returns that token without a provider call when
\* now < E - L, and issues a provider request when now >= E - L and an
\* account is present, L being the configured renewal lead.
C3_CacheEffectiveWindow ==
    LET E == obs.cachedBefore.exp
        L == RenewalLead(svc.config)
    IN  (/\ obs.op = "acquireTokenSilent"
         /\ obs.silentCall \in {"cache", "NoAccount", "request"}
         /\ obs.cachedBefore # NoToken)
        => /\ now < E - L
                => obs.silentCall = "cache" /\ obs.ev = "return"
                   /\ obs.tok = obs.cachedBefore
           /\ (now >= E - L /\ idp.accounts > 0)
                => obs.silentCall = "request"

\* C4: acquireSilent() and getAccessToken() never return a bearer value at an
\* instant now >= E - L, E being the token's provider-reported expiry and L
\* the configured renewal lead.
C4_NoStaleTokenReturned ==
    (/\ obs.ev = "return"
     /\ obs.op \in {"acquireTokenSilent", "getAccessToken"}
     /\ obs.tok # NoToken)
        => now < obs.tok.exp - RenewalLead(svc.config)

\* C5: after logout() has returned, and until an initialize() or a new
\* loginInteractive(), every acquireSilent() call on the initialized manager
\* fails with NoAccount.
C5_SilentFailsAfterLogout ==
    (/\ loggedOut
     /\ obs.op = "acquireTokenSilent"
     /\ obs.silentCall \in {"cache", "NoAccount", "request"})
        => obs.silentCall = "NoAccount" /\ obs.err = "NO_ACCOUNTS_FOUND"

\* C6: after logout() has returned, and until an initialize() or a new
\* loginInteractive(), no firing of the renewal timer issues a provider
\* request.
C6_NoTimerRequestAfterLogout ==
    ~(loggedOut /\ obs.proc = TimerProc /\ obs.silentCall = "request")

\* C7: when logout() returns, the token cache is empty and the interaction
\* lock is clear.
C7_LogoutClearsCacheAndLock ==
    (obs.op = "logout" /\ obs.ev = "return")
        => svc.cachedToken = NoToken /\ ~svc.isLoginInProgress

\* C8: when acquireSilent() inside getAccessToken() fails with NoAccount,
\* InteractionRequired or SilentRefreshFailed, getAccessToken() calls
\* loginInteractive() in the same turn, never calls it a second time, returns
\* the token of that login when it succeeds and raises when it fails.
C8_OneEscalation ==
    /\ (obs.op = "getAccessToken" /\ obs.silentErr \in EscalatingErrors)
          => obs.loginCall # "none"
    /\ \A p \in Procs : procs[p].attempts <= 1
    /\ \A p \in Procs :
          (procs[p].op = "getAccessToken" /\ p \in InsideLogin) => procs[p].attempts = 1
    /\ (obs.op = "getAccessToken" /\ obs.loginExit = "return")
          => /\ obs.ev = "return"
             /\ obs.tok # NoToken
             /\ obs.tok.id = idp.issued
             /\ procs[obs.proc] = IdleProc
    /\ (obs.op = "getAccessToken" /\ obs.loginExit = "raise")
          => obs.ev = "raise" /\ procs[obs.proc] = IdleProc

\* C8's witness: a getAccessToken() whose silent acquisition failed returns
\* the token of the interactive login it escalated to
C8_Witness ==
    /\ obs.op = "getAccessToken"
    /\ obs.loginExit = "return"
    /\ obs.ev = "return"
    /\ obs.tok # NoToken

\* C9: every getAccessToken() call eventually returns or raises, whatever the
\* provider answers.
C9_GetAccessTokenTerminates ==
    (procs["c1"].op = "getAccessToken") ~> (procs["c1"].op = "none")

\* C10: whenever a loginInteractive() that acquired the lock returns or
\* raises, the interaction lock is clear at that moment.
C10_LockClearAtLoginExit ==
    obs.loginExit # "none" => (~obs.lockAtExit /\ ~svc.isLoginInProgress)

\* C10's witness: a popup login whose provider request was answered with
\* interaction_in_progress raises after the recovery delay
C10_Witness ==
    /\ obs.loginExit = "raise"
    /\ obs.err = "AUTHENTICATION_INTERRUPTED"
    /\ svc.flowType = "popup"

\* the step is a call of op by p: p was idle, and is now inside op or has
\* returned from it or raised
CallStep(p, op) ==
    /\ procs[p] = IdleProc
    /\ \/ procs'[p].op = op
       \/ obs'.proc = p /\ obs'.op = op /\ obs'.ev \in {"return", "raise"}

\* the observable end state of clearAuthenticationState(): timer stopped,
\* lock clear, cache empty, uninitialized, the provider's storage entries gone
ClearedState ==
    /\ svc.tokenRefreshInterval = Null
    /\ ~svc.isLoginInProgress
    /\ svc.cachedToken = NoToken /\ svc.tokenExpiryTime = Null
    /\ ~svc.isInitialized
    /\ idp.accounts = 0

\* C11: a clearAuthenticationState() called right after a
\* clearAuthenticationState() has returned changes nothing: the end state of
\* two calls in succession is the end state of one call.
C11_ClearTwiceIsClearOnce ==
    [][\A p \in Callers :
          (/\ obs.op = "clearAuthenticationState"
           /\ CallStep(p, "clearAuthenticationState"))
             => /\ ClearedState /\ ClearedState'
                /\ svc' = svc /\ idp' = idp /\ procs' = procs]_vars

\* C11's witness: the second of two calls in succession has returned
C11_Witness ==
    /\ obs.op = "clearAuthenticationState"
    /\ obs.ev = "return"
    /\ obs.again

C13_SameIdentityInitializeIsNoOp ==
    [][\A p \in Callers :
          (/\ CallStep(p, "initialize")
           /\ svc.isInitialized
           /\ obs'.arg = svc.config.clientId)
             => /\ obs'.ev = "return"
                /\ svc' = svc /\ idp' = idp /\ procs' = procs]_vars

\* C13's witness: an initialize() on an initialized manager that holds a
\* cached token returns as a no-op
C13_Witness ==
    /\ obs.op = "initialize"
    /\ obs.ev = "return"
    /\ obs.arg = svc.config.clientId
    /\ Initialized(svc)
    /\ svc.cachedToken # NoToken

\* C18: the bearer value forceRefreshToken() returns was issued by the
\* provider after the call started: it is never served from a cache entry
\* written before the call.
C18_ForceRefreshIsFresh ==
    (obs.op = "forceRefreshToken" /\ obs.ev = "return")
        => obs.tok # NoToken /\ obs.tok.id > obs.since

\* C18's witness: forceRefreshToken() called when the provider had already
\* issued a bearer value returns a later one
C18_Witness ==
    /\ obs.op = "forceRefreshToken"
    /\ obs.ev = "return"
    /\ obs.since > 0
    /\ obs.tok.id > obs.since

\* C19: a failed silent acquisition of the timer callback leaves the timer
\* as it is, and an active timer is stopped only by a call of logout() or
\* clearAuthenticationState() or by a firing that finds no account (or by the
\* page being left).
C19_TimerSurvivesFailure ==
    [][/\ (obs'.proc = TimerProc /\ obs'.silentErr # "none")
             => svc'.tokenRefreshInterval = svc.tokenRefreshInterval
       /\ (svc.tokenRefreshInterval # Null /\ svc'.tokenRefreshInterval = Null)
             => \/ obs'.ev = "navigate"
                \/ \E p \in Callers : \/ CallStep(p, "logout")
                                      \/ CallStep(p, "clearAuthenticationState")
                \/ CallStep(TimerProc, "timer") /\ idp.accounts = 0]_vars

\* C19's witness: the silent acquisition of a timer firing has failed and the
\* timer is active
C19_Witness ==
    /\ obs.proc = TimerProc
    /\ obs.silentErr \in {"INTERACTION_REQUIRED", "SILENT_REFRESH_FAILED"}
    /\ svc.tokenRefreshInterval # Null

\* C20: with an account present, every firing of the renewal timer issues a
\* provider silent-acquisition request; none is answered from the cache.
C20_TimerFiringAsksProvider ==
    (obs.proc = TimerProc /\ obs.op = "timer" /\ obs.silentCall \in {"cache", "request"})
        => obs.silentCall = "request"

\* C14: an adapter initialization that finds no stored account ends with
\* initializing = false, needsLogin = true, authenticated = false and no
\* renewal timer.
C14_NoAccountNeedsLogin ==
    obs.adapter = "noAccount"
        => /\ ~authState.isInitializing
           /\ authState.needsLogin
           /\ ~authState.isAuthenticated
           /\ svc.tokenRefreshInterval = Null

\* C14's witness: the adapter's initialization has ended on its no-account
\* branch
C14_Witness ==
    /\ obs.adapter = "noAccount"
    /\ obs.op = "initialize" /\ obs.ev = "return"
    /\ idp.accounts = 0
    /\ authState.needsLogin

\* C15: an adapter initialization with a stored account whose silent
\* acquisition succeeds ends with authenticated = true, needsLogin = false,
\* the acquired bearer value as token, and a renewal timer whose interval does
\* not exceed the token's effective validity E - L - now.
C15_AccountSilentSuccess ==
    (obs.adapter = "token" /\ obs.loginExit = "none")
        => /\ authState.isAuthenticated
           /\ ~authState.needsLogin
           /\ ~authState.isInitializing
           /\ authState.jwtToken = obs.tok.id
           /\ svc.tokenRefreshInterval # Null
           /\ RefreshInterval <= obs.tok.exp - RenewalLead(svc.config) - now

\* C16: an adapter initialization with a stored account whose silent token
\* acquisition fails ends with needsLogin = true and authenticated = false.
C16_SilentFailureNeedsLogin ==
    (/\ obs.adapter \in {"token", "tokenFailed"}
     /\ obs.silentErr \in EscalatingErrors \/ obs.loginExit # "none")
        => authState.needsLogin /\ ~authState.isAuthenticated

\* C17: an adapter initialization whose provider construction or provider
\* initialization fails ends with an error message set, needsLogin = true and
\* initializing = false.
C17_InitFailureShowsError ==
    obs.adapter = "failed"
        => /\ authState.authError
           /\ authState.needsLogin
           /\ ~authState.isInitializing

\* C17's witness: the provider failed and the adapter's initialization has
\* ended
C17_Witness ==
    /\ obs.adapter = "failed"
    /\ obs.err = "INITIALIZATION_FAILED"
    /\ authState.authError

\* C21: the expiry instant stored with a cached token is E - L, E being the
\* provider-reported expiry and L the configured renewal lead
\* (tokenRenewalOffsetSeconds, 300 s when the configuration has none).  The
\* states looked at are those right after acquireTokenSilent(),
\* getAccessToken() or loginInteractive() has cached the token it returns.
C21_StoredExpiryIsExpiryMinusLead ==
    (/\ obs.ev = "return"
     /\ obs.tok # NoToken
     /\ obs.silentCall = "none"
     /\ svc.cachedToken = obs.tok)
        => svc.tokenExpiryTime = obs.tok.exp - RenewalLead(svc.config)

\* C22: when the configuration names no cache location, the provider is
\* constructed with the per-tab tier, sessionStorage.
C22_DefaultCacheIsSessionStorage ==
    (obs.cacheLocation # "none" /\ svc.config.cacheLocation = "unset")
        => obs.cacheLocation = "sessionStorage"

\* C23: acquireTokenSilent(), getAccessToken(), loginInteractive() and
\* logout() called while no initialize() has completed (isInitialized, which
\* only the last statements of initialize() set, is false) throw the
\* not-initialized error to the caller, getAccessToken() without escalating to
\* a login, and issue no provider request: the service, the provider and the
\* caller are left as they were.
C23_NotInitializedBeforeInitialize ==
    [][\A p \in Callers,
          op \in {"acquireTokenSilent", "getAccessToken", "loginInteractive", "logout"} :
          (CallStep(p, op) /\ ~svc.isInitialized)
              => /\ obs'.proc = p /\ obs'.op = op
                 /\ obs'.ev = "raise"
                 /\ obs'.err = "NOT_INITIALIZED"
                 /\ obs'.silentCall \in {"none", "NotInitialized"}
                 /\ obs'.loginCall \in {"none", "NotInitialized"}
                 /\ svc' = svc /\ idp' = idp /\ procs' = procs]_vars

\* C23's witness: a getAccessToken() made while the first initialize() awaits
\* the provider has thrown the not-initialized error
C23_Witness ==
    /\ obs.op = "getAccessToken" /\ obs.ev = "raise"
    /\ obs.err = "NOT_INITIALIZED"
    /\ obs.loginCall = "none"
    /\ ~svc.isInitialized
    /\ \E q \in Callers : procs[q].op = "initialize" /\ procs[q].pc = "await_init"

\* C24: the token of the adapter's AuthenticationState follows the service's
\* cache: once the adapter has initialized and shows the user authenticated,
\* after every successful acquisition (interactive, silent, or by the renewal
\* timer) jwtToken is the bearer value the service has cached.
C24_SnapshotTokenFollowsCache ==
    (/\ ~authState.isInitializing
     /\ authState.isAuthenticated
     /\ svc.cachedToken # NoToken)
        => authState.jwtToken = svc.cachedToken.id

\* C25: a getAccessToken() whose escalation to loginInteractive() finds the
\* lock held throws 'Login already in progress' in that same step: it is not
\* queued or retried, it issues no provider request and changes nothing in the
\* service, and it does not wait for or receive the token of the login in
\* flight.
C25_EscalationFindingLockIsRejected ==
    [][\A p \in Callers :
          (/\ obs'.proc = p /\ obs'.op = "getAccessToken"
           /\ obs'.silentErr \in EscalatingErrors
           /\ svc.isLoginInProgress)
              => /\ obs'.loginCall = "rejected"
                 /\ obs'.ev = "raise"
                 /\ obs'.err = "LOGIN_ALREADY_IN_PROGRESS"
                 /\ obs'.tok = NoToken
                 /\ procs'[p] = IdleProc
                 /\ svc' = svc /\ idp' = idp]_vars

\* C25's witness: of two concurrent getAccessToken() calls one is inside the
\* login it escalated to and the other has just been rejected
C25_Witness ==
    /\ obs.op = "getAccessToken" /\ obs.loginCall = "rejected"
    /\ obs.silentErr \in EscalatingErrors
    /\ obs.err = "LOGIN_ALREADY_IN_PROGRESS"
    /\ \E q \in InsideLogin \ {obs.proc} : procs[q].op = "getAccessToken"

\* C26: when the provider answers a silent acquisition with
\* interaction_in_progress, the step that receives the answer clears the lock
\* and the cached token and then only waits: nothing is raised or retried in
\* it.  The retry signal is raised by the step that ends the wait and by no
\* other, and a getAccessToken() (or the forceRefreshToken() that delegates
\* to it) retries its silent acquisition in that step and in no other step
\* after its call.
C26_RecoveryThenBackoffThenRetry ==
    [][\A p \in Procs :
          /\ (procs[p].pc = "await_silent" /\ procs'[p].pc = "await_backoff")
                => /\ ~svc'.isLoginInProgress
                   /\ svc'.cachedToken = NoToken
                   /\ svc'.tokenExpiryTime = Null
                   /\ procs'[p].op = procs[p].op
                   /\ obs'.ev = "none"
                   /\ obs'.silentCall = "none" /\ obs'.silentErr = "none"
          /\ (procs[p].pc = "await_backoff" /\ procs'[p] # procs[p]
                                            /\ obs'.ev # "navigate")
                => /\ obs'.proc = p
                   /\ procs[p].op = "acquireTokenSilent"
                        => /\ obs'.ev = "raise"
                           /\ obs'.err = "INTERACTION_IN_PROGRESS_RESOLVED"
                   /\ procs[p].op \in {"getAccessToken", "forceRefreshToken"}
                        => obs'.silentCall # "none"
          /\ (/\ obs'.proc = p
              /\ \/ obs'.err = "INTERACTION_IN_PROGRESS_RESOLVED"
                 \/ obs'.silentErr = "INTERACTION_IN_PROGRESS_RESOLVED")
                => procs[p].pc = "await_backoff"
          /\ (/\ obs'.proc = p
              /\ obs'.op \in {"getAccessToken", "forceRefreshToken"}
              /\ obs'.silentCall # "none")
                => procs[p].pc \in {"idle", "await_backoff"}]_vars

\* C26's witness: the wait of a getAccessToken() has ended and its retried
\* silent acquisition has gone to the provider
C26_Witness ==
    /\ obs.op = "getAccessToken"
    /\ obs.silentErr = "INTERACTION_IN_PROGRESS_RESOLVED"
    /\ obs.silentCall = "request"
    /\ procs[obs.proc].pc = "await_silent"

\* the messages of the errors acquireTokenSilent() throws
SilentSignals ==
    {"NOT_INITIALIZED", "NO_ACCOUNTS_FOUND", "INTERACTION_IN_PROGRESS_RESOLVED",
     "INTERACTION_REQUIRED", "SILENT_REFRESH_FAILED"}

\* C27: a rejected silent acquisition of the provider is reported as one of
\* three signals.  interaction_in_progress starts the recovery, and the call
\* waits with nothing reported yet (the retry signal follows the wait);
\* an InteractionRequiredAuthError is reported as INTERACTION_REQUIRED; every
\* other error as SILENT_REFRESH_FAILED.  acquireTokenSilent() throws that
\* signal to its caller, and no error of the provider itself ever comes out of
\* a silent acquisition.
C27_SilentFailureIsOneOfThreeSignals ==
    /\ obs.silentFailure # NoError
          => LET e == obs.silentFailure IN
             /\ e = InteractionInProgress
                  => /\ procs[obs.proc].pc = "await_backoff"
                     /\ obs.silentErr = "none" /\ obs.ev = "none"
             /\ (e # InteractionInProgress /\ e.cls = "InteractionRequiredAuthError")
                  => obs.silentErr = "INTERACTION_REQUIRED"
             /\ (e # InteractionInProgress /\ e.cls # "InteractionRequiredAuthError")
                  => obs.silentErr = "SILENT_REFRESH_FAILED"
             /\ (e # InteractionInProgress /\ obs.op = "acquireTokenSilent")
                  => obs.ev = "raise" /\ obs.err = obs.silentErr
    /\ obs.silentErr \in SilentSignals \cup {"none"}
    /\ (obs.op = "acquireTokenSilent" /\ obs.ev = "raise") => obs.err \in SilentSignals
    /\ \A p \in Procs :
          (procs[p].pc = "idle" /\ obs.proc = p /\ obs.op = "acquireTokenSilent"
             /\ obs.silentErr = "INTERACTION_IN_PROGRESS_RESOLVED")
              => obs.ev = "raise" /\ obs.err = "INTERACTION_IN_PROGRESS_RESOLVED"

\* C27's witness: the provider has rejected the silent request of an
\* acquireTokenSilent() with an error that is neither of the two it knows, and
\* the call has thrown SILENT_REFRESH_FAILED
C27_Witness ==
    /\ obs.op = "acquireTokenSilent"
    /\ obs.silentFailure = [cls |-> "BrowserAuthError", code |-> "monitor_window_timeout"]
    /\ obs.ev = "raise"
    /\ obs.err = "SILENT_REFRESH_FAILED"

\* C28: a failed interactive request is classified.  On
\* interaction_in_progress the recovery runs (lock and cache cleared, then the
\* wait) and after it the 'window was closed or interrupted' error is thrown;
\* on user_cancelled and popup_window_error the 'cancelled, try again' error
\* is thrown; every other error is thrown on as it is.  No failing exit of
\* loginInteractive() caches a token or starts (or otherwise touches) the
\* renewal timer.
C28_LoginFailureClassified ==
    [][\A p \in Callers :
          /\ (obs'.proc = p /\ obs'.loginFailure # NoError)
                => LET e == obs'.loginFailure IN
                   /\ procs[p].pc \in {"await_popup", "await_redirect"}
                   /\ svc'.tokenRefreshInterval = svc.tokenRefreshInterval
                   /\ e = InteractionInProgress
                        => /\ procs'[p].pc = "await_login_backoff"
                           /\ obs'.ev = "none" /\ obs'.loginExit = "none"
                           /\ ~svc'.isLoginInProgress
                           /\ svc'.cachedToken = NoToken
                   /\ e # InteractionInProgress
                        => /\ obs'.loginExit = "raise" /\ obs'.ev = "raise"
                           /\ obs'.tok = NoToken
                           /\ obs'.err =
                                IF e.cls = "BrowserAuthError"
                                   /\ e.code \in {"user_cancelled", "popup_window_error"}
                                THEN "AUTHENTICATION_CANCELLED"
                                ELSE Rethrown(e)
          /\ (procs[p].pc = "await_login_backoff" /\ procs'[p] # procs[p]
                                                  /\ obs'.ev # "navigate")
                => /\ obs'.proc = p
                   /\ obs'.loginExit = "raise" /\ obs'.ev = "raise"
                   /\ obs'.err = "AUTHENTICATION_INTERRUPTED"
          /\ (obs'.proc = p /\ obs'.loginExit = "raise")
                => /\ svc'.cachedToken = svc.cachedToken
                   /\ svc'.tokenExpiryTime = svc.tokenExpiryTime
                   /\ svc'.tokenRefreshInterval = svc.tokenRefreshInterval]_vars

\* C28's witness: the provider has rejected the interactive request of a
\* loginInteractive() with an error the catch block does not know, and the
\* call has thrown that error
C28_Witness ==
    /\ obs.op = "loginInteractive"
    /\ obs.loginFailure = [cls |-> "ServerError", code |-> "access_denied"]
    /\ obs.loginExit = "raise"
    /\ obs.err = "ServerError:access_denied"

\* C29: in every initialize() that has constructed the provider and finds an
\* account stored, clearPendingInteractions() calls acquireTokenSilent()
\* before the service is marked initialized.
C29_ProbeAcquiresSilently ==
    (obs.probe # "none" /\ idp.accounts > 0)
        => obs.probe = "silent"

\* C30: initialize() asks the provider for a pending redirect response exactly
\* when the configured flow is redirect.  When the provider has a response
\* pending, the cache is seeded from it (the token, and its expiry less the
\* safety margin); when it has none, and in the popup flow whether or not a
\* response is pending, this step of initialize() leaves the cache as it was.
C30_RedirectResponseSeedsCache ==
    [][\A p \in Callers :
          /\ (procs'[p].pc = "await_redirect_promise"
                 /\ procs[p].pc # "await_redirect_promise")
                => procs[p].pc = "await_init" /\ svc.flowType = "redirect"
          /\ (procs[p].pc = "await_init" /\ procs'[p] # procs[p]
                                         /\ obs'.ev # "navigate")
                => \/ /\ obs'.err = "INITIALIZATION_FAILED" /\ obs'.probe = "none"
                      /\ svc'.cachedToken = svc.cachedToken
                   \/ /\ svc.flowType = "redirect"
                      /\ procs'[p].pc = "await_redirect_promise"
                      /\ svc' = svc /\ idp' = idp
                   \/ /\ svc.flowType # "redirect"
                      /\ obs'.probe # "none" /\ ~obs'.seeded
                      /\ procs'[p].pc # "await_redirect_promise"
                      /\ svc'.cachedToken = svc.cachedToken
                      /\ svc'.tokenExpiryTime = svc.tokenExpiryTime
                      /\ idp'.pendingRedirect = idp.pendingRedirect
          /\ (procs[p].pc = "await_redirect_promise" /\ procs'[p] # procs[p]
                                                     /\ obs'.ev # "navigate")
                => \/ /\ obs'.err = "INITIALIZATION_FAILED" /\ obs'.probe = "none"
                      /\ ~obs'.seeded
                      /\ svc'.cachedToken = svc.cachedToken
                   \/ /\ obs'.probe # "none"
                      /\ idp.pendingRedirect # NoToken
                      /\ obs'.seeded
                      /\ svc'.cachedToken = idp.pendingRedirect
                      /\ svc'.tokenExpiryTime = idp.pendingRedirect.exp - FiveMinutes
                   \/ /\ obs'.probe # "none"
                      /\ idp.pendingRedirect = NoToken
                      /\ ~obs'.seeded
                      /\ svc'.cachedToken = svc.cachedToken
                      /\ svc'.tokenExpiryTime = svc.tokenExpiryTime
          /\ (obs'.proc = p /\ obs'.seeded)
                => procs[p].pc = "await_redirect_promise"]_vars

\* C30's witness: an initialize() of the redirect flow has received the
\* pending response and the cache holds its token
C30_Witness ==
    /\ obs.seeded
    /\ obs.probe # "none"
    /\ svc.flowType = "redirect"
    /\ svc.cachedToken # NoToken
    /\ idp.pendingRedirect = NoToken

\* C31: a loginInteractive() of the redirect flow never returns a result.
\* Its interactive request is a redirect request exactly when the flow is
\* redirect; the call then ends with the page being left or with an error
\* (at once, or after the wait of the recovery), and no step of it caches a
\* token or starts the renewal timer.
C31_RedirectLoginNeverReturns ==
    [][\A p \in Callers :
          /\ (obs'.proc = p /\ obs'.loginCall = "request")
                => (procs'[p].pc = "await_redirect" <=> svc'.flowType = "redirect")
          /\ (procs[p].pc = "await_redirect" /\ procs'[p] # procs[p])
                => \/ obs'.ev = "navigate" /\ svc' = InitSvc
                   \/ /\ procs'[p].pc = "await_login_backoff"
                      /\ obs'.ev = "none" /\ obs'.loginExit = "none"
                      /\ svc'.cachedToken = NoToken
                      /\ svc'.tokenRefreshInterval = svc.tokenRefreshInterval
                   \/ /\ obs'.proc = p
                      /\ obs'.loginExit = "raise" /\ obs'.ev = "raise"
                      /\ obs'.tok = NoToken
                      /\ svc'.cachedToken = svc.cachedToken
                      /\ svc'.tokenExpiryTime = svc.tokenExpiryTime
                      /\ svc'.tokenRefreshInterval = svc.tokenRefreshInterval
          /\ (obs'.proc = p /\ obs'.loginExit = "return")
                => procs[p].pc = "await_popup"]_vars

\* C31's witness: acquireTokenRedirect() has resolved without the page having
\* been left, and the loginInteractive() has thrown 'Redirect initiated'
C31_Witness ==
    /\ obs.op = "loginInteractive"
    /\ obs.loginFailure = RedirectInitiated
    /\ obs.loginExit = "raise"
    /\ obs.err = "Error:Redirect initiated"
    /\ svc.flowType = "redirect"

\* C32: clearAuthenticationState() removes from sessionStorage and from
\* localStorage the keys of the provider's namespaces (the keys that contain
\* msal, microsoft or login) that either tier holds, and leaves every other
\* key with its value in both tiers.
C32_SweepRemovesReservedKeysOnly ==
    [][\A p \in Callers :
          CallStep(p, "clearAuthenticationState")
              => \A k \in StorageKeys :
                    IF k \in {"msal.account.keys", "microsoft.sso", "user_login_count"}
                    THEN /\ storage'.session[k] = Absent
                         /\ storage'.local[k] = Absent
                    ELSE /\ storage'.session[k] = storage.session[k]
                         /\ storage'.local[k] = storage.local[k]]_vars

\* C32's witness: the sweep has removed a key of the provider and has left
\* the application's entry in each tier
C32_Witness ==
    /\ obs.op = "clearAuthenticationState" /\ obs.ev = "return"
    /\ "microsoft.sso" \in obs.swept
    /\ storage.local["microsoft.sso"] = Absent
    /\ storage.session["app.theme"] = "v1"
    /\ storage.local["app.theme"] = "v2"

\* C33: a firing of the renewal timer that finds no account stored stops
\* the timer and issues no provider request; a timer fires only while its
\* handle is set, so no firing follows until a login or an initialize() has
\* started the timer again.
C33_TimerStopsItselfWithoutAccount ==
    [][(procs[TimerProc].pc = "idle" /\ obs'.proc = TimerProc)
          => /\ svc.tokenRefreshInterval # Null
             /\ idp.accounts = 0
                  => /\ svc'.tokenRefreshInterval = Null
                     /\ procs'[TimerProc].pc = "idle"
                     /\ obs'.silentCall = "none"]_vars

\* C35: whenever the renewal timer is running, the service is initialized.
C35_RunningTimerImpliesInitialized ==
    svc.tokenRefreshInterval # Null => svc.isInitialized

\* C34: when a login started by the React adapter's handleLogin fails because
\* the provider reports interaction_in_progress (the service then throws its
\* 'window was closed or interrupted' error, after the recovery), handleLogin
\* calls clearAuthenticationState(): the service is left uninitialized.
C34_HandleLoginAutoClears ==
    (/\ obs.adapter \in {"loginCleared", "loginFailed"}
     /\ obs.err = "AUTHENTICATION_INTERRUPTED")
        => obs.adapter = "loginCleared" /\ ~svc.isInitialized

\* C36: the renewal timer never starts an interactive login.  Its callback is
\* never inside loginInteractive(), no step of it calls loginInteractive(), and
\* whatever its silent acquisition has come to (a token, no account, one of the
\* three failure signals) the callback ends there.
C36_TimerNeverLogsIn ==
    /\ TimerProc \notin InsideLogin
    /\ procs[TimerProc].pc \in {"idle", "await_silent", "await_backoff"}
    /\ obs.proc = TimerProc
          => /\ obs.loginCall = "none" /\ obs.loginExit = "none"
             /\ (obs.silentErr # "none" \/ obs.ev = "return")
                   => procs[TimerProc].pc = "idle"

\* C36's witness: the provider has answered the timer's silent request with
\* interaction_required, and the callback has ended
C36_Witness ==
    /\ obs.proc = TimerProc /\ obs.op = "timer"
    /\ obs.silentErr = "INTERACTION_REQUIRED"
    /\ obs.ev = "return"
    /\ procs[TimerProc].pc = "idle"
    /\ InteractiveOutstanding = {}


\* C37: once an initialize(config) with another clientId has run to
\* completion, a bearer value returned by acquireTokenSilent() or
\* getAccessToken() was issued to the clientId now configured, never to the
\* previous one. Checked on the call that follows the completion at once:
\* the step before it ended an initialize() that went past its first line
\* (the completing step carries no call argument), the provider in place is
\* the one of the stored configuration, and the call is served from the
\* cache.
C37_NoTokenOfPreviousIdentity ==
    [][(/\ obs.op = "initialize" /\ obs.ev = "return" /\ obs.arg = "none"
        /\ Initialized(svc)
        /\ issuedTo # Untracked
        /\ issuedTo.instance = svc.config.clientId
        /\ \/ CallStep("c1", "acquireTokenSilent")
           \/ CallStep("c1", "getAccessToken")
        /\ obs'.proc = "c1" /\ obs'.ev = "return"
        /\ obs'.tok # NoToken /\ obs'.tok = svc.cachedToken)
          => issuedTo.cached = svc.config.clientId]_vars

\* C38: an initialize(config) called while another initialize() with the same
\* config is still in flight (its provider constructed, the manager not yet
\* marked initialized) constructs no second provider and starts no second
\* initialization.
C38_OverlappingInitializeConstructsOnce ==
    [][\A p \in Callers :
          (/\ CallStep(p, "initialize")
           /\ \E q \in Callers \ {p} : procs[q].op = "initialize"
           /\ ~svc.isInitialized
           /\ svc.msalInstance
           /\ obs'.arg = svc.config.clientId)
             => /\ obs'.cacheLocation = "none"
                /\ procs'[p].pc # "await_init"]_vars

\* C39: the initialize(config) that follows a failed initialize(), called
\* with the clientId of the stored configuration, is a no-op: the failure
\* has marked the manager initialized, so the call returns at once, constructs
\* no provider, starts no initialization and changes nothing.
C39_InitializeAfterFailureIsNoOp ==
    [][\A p \in Callers :
          (/\ obs.op = "initialize" /\ obs.ev = "raise"
           /\ CallStep(p, "initialize")
           /\ obs'.arg = svc.config.clientId)
             => /\ svc.isInitialized
                /\ obs'.proc = p /\ obs'.ev = "return"
                /\ obs'.cacheLocation = "none"
                /\ svc' = svc /\ idp' = idp /\ procs' = procs]_vars

\* C39's witness: an initialize() has returned as a no-op on a manager that
\* is marked initialized without a provider, which only a failed
\* construction leaves behind
C39_Witness ==
    /\ obs.op = "initialize" /\ obs.ev = "return"
    /\ obs.arg = svc.config.clientId
    /\ svc.isInitialized
    /\ ~svc.msalInstance

\* C40: a logout() that reaches the provider's end-session request has
\* stopped the renewal timer before it; when the request fails, logout()
\* raises and that step changes nothing: token cache, cached expiry,
\* interaction lock and the provider's account are as they were, and the
\* timer is not started again.
C40_FailedLogoutKeepsCacheAndLock ==
    [][\A p \in Callers :
          /\ (CallStep(p, "logout")
                 /\ procs'[p].pc \in {"await_logout_popup", "await_logout_redirect"})
                => svc'.tokenRefreshInterval = Null
          /\ (/\ procs[p].pc \in {"await_logout_popup", "await_logout_redirect"}
              /\ obs'.proc = p /\ obs'.op = "logout" /\ obs'.ev = "raise")
                => /\ svc'.cachedToken = svc.cachedToken
                   /\ svc'.tokenExpiryTime = svc.tokenExpiryTime
                   /\ svc'.isLoginInProgress = svc.isLoginInProgress
                   /\ svc'.tokenRefreshInterval = svc.tokenRefreshInterval
                   /\ idp'.accounts = idp.accounts]_vars

\* C40's witness: a logout() has raised the provider's error on a service
\* that still holds its cached token and its account, the timer stopped
C40_Witness ==
    /\ obs.op = "logout" /\ obs.ev = "raise" /\ obs.err = "PROVIDER_ERROR"
    /\ svc.cachedToken # NoToken
    /\ idp.accounts > 0
    /\ svc.tokenRefreshInterval = Null

====
